---- MODULE Spec2Model ----
(***************************************************************************)
(* Stroke warning system: the rule-based scorer predict_stroke (app.py),   *)
(* the patient store and its handlers add_patient / update_patient         *)
(* (app.py), the migration script (migrate_data.py) and the training       *)
(* pipeline (train_model.py).                                              *)
(*                                                                         *)
(* Numbers.  age, avg_glucose_level and bmi are compared by the scorer     *)
(* only against integer thresholds with ">", so a float x behaves exactly  *)
(* as the integer ceil(x); the model carries integers.  The probability    *)
(* risk_score / 100 is carried in hundredths (0.95 is 95, 0.5 is 50).      *)
(***************************************************************************)
EXTENDS Integers, Sequences, FiniteSets, TLC

VARIABLES
    sc,         \* one invocation of predict_stroke: its argument and its locals
    calls,      \* concurrent invocations of predict_stroke, one frame each
    cells,      \* the storage that holds each frame's risk_score accumulator
    patients,   \* the patients table, in id order (id = position)
    lastOp,     \* what the last handler or script run did and answered
    ops,        \* number of handler and script runs so far
    csv,        \* the file brain_stroke.csv of the working directory
    pc,         \* the training run: "idle", the stage to run next, "done" or "failed"
    stages,     \* the stages the training run has entered, in order
    df,         \* the DataFrame of the run: where it came from and its rows
    y,          \* the target column after preprocess_data, as integers
    split,      \* train_idx and test_idx of the run
    scaler,     \* the preprocessing state preprocess_data fitted: on which rows, how often
    failure     \* the stage that ended the run and what it reported

\* What the training run leaves alone.
TrainIdle == <<sc, calls, cells, patients, lastOp, ops, csv>>
vars == <<sc, calls, cells, patients, lastOp, ops, csv, pc, stages, df, y, split, scaler, failure>>

Min(a, b) == IF a < b THEN a ELSE b

(***************************************************************************)
(* predict_stroke, app.py 355-399.  patient_data is a record of the six    *)
(* keys the scorer reads.                                                  *)
(***************************************************************************)
ScoredFields ==
    {"age", "hypertension", "heart_disease", "avg_glucose_level", "bmi", "smoking_status"}

\* Mutant of AgePoints: the second bucket tested with >= instead of >.
AgePointsInclusive(age) == IF age > 60 THEN 30 ELSE IF age >= 45 THEN 15 ELSE 0

AgePoints(age) == IF age > 60 THEN 30 ELSE IF age > 45 THEN 15 ELSE 0

HypertensionPoints(hypertension) == IF hypertension = 1 THEN 25 ELSE 0

HeartDiseasePoints(heart_disease) == IF heart_disease = 1 THEN 25 ELSE 0

GlucosePoints(glucose) == IF glucose > 125 THEN 15 ELSE IF glucose > 100 THEN 10 ELSE 0

BmiPoints(bmi) == IF bmi > 30 THEN 10 ELSE IF bmi > 25 THEN 5 ELSE 0

SmokingPoints(smoking_status) ==
    IF smoking_status = "smokes" THEN 15
    ELSE IF smoking_status = "formerly smoked" THEN 8
    ELSE 0

\* risk_score after the six rule blocks have run in order.
risk_score(patient_data) ==
    0 + AgePoints(patient_data.age)
      + HypertensionPoints(patient_data.hypertension)
      + HeartDiseasePoints(patient_data.heart_disease)
      + GlucosePoints(patient_data.avg_glucose_level)
      + BmiPoints(patient_data.bmi)
      + SmokingPoints(patient_data.smoking_status)

\* Mutant of probability: the clip forgotten.
probabilityUnclipped(score) == score

\* probability = min(risk_score / 100, 0.95), in hundredths.
probability(score) == Min(score, 95)

\* Mutant of RiskLevel: the threshold tested with >=.
RiskLevelInclusive(prob) == IF prob >= 50 THEN "High Risk" ELSE "Low Risk"

\* 'High Risk' if probability > 0.5 else 'Low Risk'
RiskLevel(prob) == IF prob > 50 THEN "High Risk" ELSE "Low Risk"

predict_stroke(patient_data) == RiskLevel(probability(risk_score(patient_data)))

(***************************************************************************)
(* The patients table (models.py 22-40) and the requests of the handlers.  *)
(* A JSON body is a record v of values with the set of keys that are       *)
(* absent and the set of keys whose value is null; the value carried for   *)
(* an absent or null key is a placeholder that no handler reads.           *)
(***************************************************************************)
required_fields ==
    <<"name", "age", "gender", "hypertension", "heart_disease", "ever_married",
      "work_type", "residence_type", "avg_glucose_level", "bmi", "smoking_status">>

\* Columns declared nullable=False (every column the handlers write except
\* stroke_prediction).
NotNullColumns == {required_fields[i] : i \in 1..Len(required_fields)}

\* SQL NULL in the String column stroke_prediction.
NULL == "<NULL>"

Patient(v, stroke_prediction, validated, created_by) ==
    [name |-> v.name, age |-> v.age, gender |-> v.gender,
     hypertension |-> v.hypertension, heart_disease |-> v.heart_disease,
     ever_married |-> v.ever_married, work_type |-> v.work_type,
     residence_type |-> v.residence_type,
     avg_glucose_level |-> v.avg_glucose_level, bmi |-> v.bmi,
     smoking_status |-> v.smoking_status,
     stroke_prediction |-> stroke_prediction, validated |-> validated,
     created_by |-> created_by]

\* The six keys predict_stroke reads, taken from a record of values.
ScorerInput(v) ==
    [age |-> v.age, hypertension |-> v.hypertension,
     heart_disease |-> v.heart_disease,
     avg_glucose_level |-> v.avg_glucose_level, bmi |-> v.bmi,
     smoking_status |-> v.smoking_status]

NoData ==
    [age |-> 0, hypertension |-> 0, heart_disease |-> 0,
     avg_glucose_level |-> 0, bmi |-> 0, smoking_status |-> ""]

\* What a handler or script run did: its answer (HTTP status, 0 for a
\* script; the kind of error and the field its message names), the fields
\* the submitted record lacked (absent keys or columns, null values or
\* empty cells), whether the scorer's input was built and the scorer ran to
\* its return, on which values, and for which fields a default stood in for
\* a missing value.
Outcome(op, status, error, field, absent, null, scored, data, substituted, prediction) ==
    [op |-> op, status |-> status, error |-> error, field |-> field,
     absent |-> absent, null |-> null, scored |-> scored, data |-> data,
     substituted |-> substituted, prediction |-> prediction]

NoOutcome == Outcome("none", 0, "none", "none", {}, {}, FALSE, NoData, {}, "none")

\* The first key of required_fields that the body lacks (add_patient 132-137).
FirstAbsent(req) ==
    LET idx == {i \in 1..Len(required_fields) : required_fields[i] \in req.absent}
        first == CHOOSE i \in idx : \A j \in idx : i <= j
    IN required_fields[first]

\* predict_stroke(data) on a body with null values: "None > 60" raises
\* TypeError for the three compared keys, in the order the rules run;
\* "None == 1" and "None == 'smokes'" are False and add no points.
ComparedKeys == <<"age", "avg_glucose_level", "bmi">>

ScoringRaises(req) == \E i \in 1..Len(ComparedKeys) : ComparedKeys[i] \in req.null

\* The scorer's view of a body none of whose compared keys is null: a null
\* flag or smoking status matches no rule.
AsScored(req) ==
    [ScorerInput(req.v) EXCEPT
        !.hypertension = IF "hypertension" \in req.null THEN 0 ELSE @,
        !.heart_disease = IF "heart_disease" \in req.null THEN 0 ELSE @,
        !.smoking_status = IF "smoking_status" \in req.null THEN "None" ELSE @]

\* The scored keys as the body carries them, blank where it carries none.
Submitted(req) ==
    [k \in ScoredFields |->
        IF k \in req.absent \cup req.null THEN NoData[k] ELSE req.v[k]]

\* add_patient, app.py 117-176.
add_patient(req, authorised) ==
    LET data == Submitted(req)
    IN
    /\ ops' = ops + 1
    /\ IF ~authorised THEN
           /\ lastOp' = Outcome("add_patient", 401, "unauthorized", "none", {}, {},
                                FALSE, NoData, {}, "none")
           /\ UNCHANGED patients
       ELSE IF req.absent # {} THEN
           /\ lastOp' = Outcome("add_patient", 400, "missing_field", FirstAbsent(req),
                                req.absent, req.null, FALSE, data, {}, "none")
           /\ UNCHANGED patients
       ELSE IF ScoringRaises(req) THEN
           \* TypeError in predict_stroke: rollback, 500 'Error adding patient: ...'
           /\ lastOp' = Outcome("add_patient", 500, "type_error", "none",
                                req.absent, req.null, FALSE, data, {}, "none")
           /\ UNCHANGED patients
       ELSE IF req.null \cap NotNullColumns # {} THEN
           \* the scorer returned; the INSERT violates NOT NULL: rollback, 500
           /\ lastOp' = Outcome("add_patient", 500, "integrity_error",
                                CHOOSE f \in req.null \cap NotNullColumns : TRUE,
                                req.absent, req.null, TRUE, data, {}, "none")
           /\ UNCHANGED patients
       ELSE
           /\ patients' = Append(patients,
                                 Patient(req.v, predict_stroke(AsScored(req)), FALSE, "doctor1"))
           /\ lastOp' = Outcome("add_patient", 200, "none", "none", req.absent, req.null,
                                TRUE, data, {}, predict_stroke(AsScored(req)))

(***************************************************************************)
(* update_patient, app.py 200-265.  The body names the patient (has_id,    *)
(* id: <<>> for null, <<k>> for k) and supplies the keys in `supplied`     *)
(* with the values of v; a supplied key may be null (or ''), or, for a     *)
(* numeric key, text that int()/float() rejects (`invalid`).               *)
(***************************************************************************)
updatable == required_fields

NumericKeys == {"age", "hypertension", "heart_disease", "avg_glucose_level", "bmi"}

\* The first supplied numeric key, in the order of `updatable`, whose value
\* int()/float() rejects; "none" when every conversion succeeds (226-239).
FirstInvalid(req) ==
    LET idx == {i \in 1..Len(updatable) :
                    /\ updatable[i] \in req.supplied
                    /\ updatable[i] \in NumericKeys
                    /\ updatable[i] \in req.invalid}
    IN IF idx = {} THEN "none"
       ELSE updatable[CHOOSE i \in idx : \A j \in idx : i <= j]

\* The session's patient object after the setattr loop: the attribute of a
\* supplied key is the supplied value, None when that value is null.
Updated(patient, req) ==
    [k \in DOMAIN patient |->
        IF k \in req.supplied /\ k \notin req.null THEN req.v[k] ELSE patient[k]]

NoneAttributes(req) == req.supplied \cap req.null

\* The keys for which lines 247-252 put a default in place of None.
Substituted(p, none) == none \cap ScoredFields

\* patient_data of lines 246-253: "x or default" and "x if x is not None
\* else default" give the default for None (and for a falsy age or
\* smoking_status, which are then their own defaults 0 and '').
patient_data(p, none) ==
    [age |-> IF "age" \in none THEN 0 ELSE p.age,
     hypertension |-> IF "hypertension" \in none THEN 0 ELSE p.hypertension,
     heart_disease |-> IF "heart_disease" \in none THEN 0 ELSE p.heart_disease,
     avg_glucose_level |-> IF "avg_glucose_level" \in none THEN 0 ELSE p.avg_glucose_level,
     bmi |-> IF "bmi" \in none THEN 0 ELSE p.bmi,
     smoking_status |-> IF "smoking_status" \in none \/ p.smoking_status = ""
                        THEN "Unknown" ELSE p.smoking_status]

update_patient(req, authorised) ==
    /\ ops' = ops + 1
    /\ IF ~authorised THEN
           /\ lastOp' = Outcome("update_patient", 401, "unauthorized", "none", {}, {},
                                FALSE, NoData, {}, "none")
           /\ UNCHANGED patients
       ELSE IF ~req.has_id THEN
           /\ lastOp' = Outcome("update_patient", 400, "missing_id", "none", {}, {},
                                FALSE, NoData, {}, "none")
           /\ UNCHANGED patients
       ELSE IF req.id = <<>> THEN
           \* int(None) raises TypeError: rollback, 500
           /\ lastOp' = Outcome("update_patient", 500, "type_error", "none", {}, {},
                                FALSE, NoData, {}, "none")
           /\ UNCHANGED patients
       ELSE IF req.id[1] \notin 1..Len(patients) THEN
           /\ lastOp' = Outcome("update_patient", 404, "not_found", "none", {}, {},
                                FALSE, NoData, {}, "none")
           /\ UNCHANGED patients
       ELSE IF FirstInvalid(req) # "none" THEN
           \* returns 400 without commit: the session's changes are dropped
           /\ lastOp' = Outcome("update_patient", 400, "invalid_value", FirstInvalid(req),
                                {}, {}, FALSE, NoData, {}, "none")
           /\ UNCHANGED patients
       ELSE
           LET id == req.id[1]
               none == NoneAttributes(req)
               p == Updated(patients[id], req)
               rescored == ~req.has_prediction
               data == IF rescored THEN patient_data(p, none) ELSE NoData
               prediction == IF rescored THEN predict_stroke(data) ELSE "none"
               q == IF rescored THEN [p EXCEPT !.stroke_prediction = prediction] ELSE p
               subst == IF rescored THEN Substituted(p, none) ELSE {}
           IN
           IF none \cap NotNullColumns # {} THEN
               \* the UPDATE violates NOT NULL at commit: rollback, 500 str(e)
               /\ lastOp' = Outcome("update_patient", 500, "integrity_error",
                                    CHOOSE f \in none \cap NotNullColumns : TRUE,
                                    {}, none, rescored, data, subst, "none")
               /\ UNCHANGED patients
           ELSE IF ~rescored THEN
               \* committed; then line 261 reads the unbound local `prediction`:
               \* UnboundLocalError, rollback of an empty transaction, 500
               /\ patients' = [patients EXCEPT ![id] = q]
               /\ lastOp' = Outcome("update_patient", 500, "unbound_local", "none",
                                    {}, none, FALSE, data, subst, "none")
           ELSE
               /\ patients' = [patients EXCEPT ![id] = q]
               /\ lastOp' = Outcome("update_patient", 200, "none", "none", {}, none, TRUE,
                                    data, subst, prediction)

(***************************************************************************)
(* brain_stroke.csv.  A file has a header (the set of its column names)    *)
(* and rows; a row gives the text of each cell.  Numeric cells carry the   *)
(* number they spell, <<>> for a cell float() rejects ('' or 'N/A').       *)
(* The cells of a column the header lacks are never read.                  *)
(***************************************************************************)
StandardColumns ==
    {"id", "gender", "age", "hypertension", "heart_disease", "ever_married",
     "work_type", "Residence_type", "avg_glucose_level", "bmi", "smoking_status",
     "stroke"}

Row(id, age, hypertension, heart_disease, glucose, bmi, smoking_status, stroke) ==
    [id |-> id, age |-> age, hypertension |-> hypertension,
     heart_disease |-> heart_disease, avg_glucose_level |-> glucose, bmi |-> bmi,
     smoking_status |-> smoking_status, stroke |-> stroke]

CsvFile(exists, columns, rows) == [exists |-> exists, columns |-> columns, rows |-> rows]

\* str.strip() and str.lower() on the texts an outcome cell holds here.
Strip(text) ==
    CASE text = " 1" -> "1"
      [] text = "0 " -> "0"
      [] OTHER -> text

Lower(text) ==
    CASE text = "Yes" -> "yes"
      [] text = "No" -> "no"
      [] text = "TRUE" -> "true"
      [] text = "True" -> "true"
      [] text = "FALSE" -> "false"
      [] text = "False" -> "false"
      [] text = "Y" -> "y"
      [] text = "N" -> "n"
      [] OTHER -> text

\* row.get('stroke') if 'stroke' in row else row.get('Stroke'): the cell, or
\* <<>> for None when the header has neither column (migrate_data 40).
raw_stroke(columns, row) ==
    IF "stroke" \in columns \/ "Stroke" \in columns THEN <<row.stroke>> ELSE <<>>

\* migrate_data 41-49: stroke_val starts at 0 and is set only for a
\* recognised text.
stroke_val(raw) ==
    IF raw = <<>> THEN 0
    ELSE LET s == Strip(raw[1])
         IN IF s \in {"0", "1"} THEN (IF s = "1" THEN 1 ELSE 0)
            ELSE IF Lower(s) \in {"yes", "y", "true"} THEN 1
            ELSE IF Lower(s) \in {"no", "n", "false"} THEN 0
            ELSE 0

\* str() of the integer bound to the String column stroke_prediction.
IntText(n) == IF n = 1 THEN "1" ELSE "0"

\* The columns whose absence makes row.get(..., default) return the default
\* (53-58), and bmi, whose empty or 'N/A' cell becomes 0.0 (57).
DefaultedColumns == {"age", "hypertension", "heart_disease", "avg_glucose_level", "smoking_status"}

RowDefaulted(columns, row) ==
    (DefaultedColumns \ columns)
        \cup (IF "bmi" \notin columns \/ row.bmi = <<>> THEN {"bmi"} ELSE {})

\* float()/int() of a cell raises ValueError (a present column, a cell that
\* is no number); bmi is guarded by line 57 and never raises.
RowRaises(columns, row) == "age" \in columns /\ row.age = <<>>

\* patient_data_for_prediction, 52-60, without its 'stroke' entry.
patient_data_for_prediction(columns, row) ==
    [age |-> IF "age" \in columns THEN row.age[1] ELSE 0,
     hypertension |-> IF "hypertension" \in columns THEN row.hypertension ELSE 0,
     heart_disease |-> IF "heart_disease" \in columns THEN row.heart_disease ELSE 0,
     avg_glucose_level |-> IF "avg_glucose_level" \in columns THEN row.avg_glucose_level ELSE 0,
     bmi |-> IF "bmi" \in columns /\ row.bmi # <<>> THEN row.bmi[1] ELSE 0,
     smoking_status |-> IF "smoking_status" \in columns THEN row.smoking_status ELSE "Unknown"]

\* The columns read with row.get(name) and no default: None when absent,
\* which the NOT NULL columns reject at bulk_save_objects (66-73).
UndefaultedColumns ==
    [gender |-> "gender", ever_married |-> "ever_married",
     work_type |-> "work_type", residence_type |-> "Residence_type"]

RowNone(columns) ==
    {k \in DOMAIN UndefaultedColumns : UndefaultedColumns[k] \notin columns}

\* new_patient, 63-78.  The name carries the row's id.
new_patient(columns, row) ==
    LET d == patient_data_for_prediction(columns, row)
    IN [name |-> IF "id" \in columns THEN "Patient " \o ToString(row.id) ELSE "Patient ",
        age |-> d.age, gender |-> "Male",
        hypertension |-> d.hypertension, heart_disease |-> d.heart_disease,
        ever_married |-> "Yes", work_type |-> "Private", residence_type |-> "Urban",
        avg_glucose_level |-> d.avg_glucose_level, bmi |-> d.bmi,
        smoking_status |-> d.smoking_status,
        stroke_prediction |-> IntText(stroke_val(raw_stroke(columns, row))),
        validated |-> TRUE, created_by |-> "migration_script"]

\* The threshold of the "already migrated" guard, migrate_data.py 29.
MigrateThreshold == 10

\* clear_data, migrate_data.py 7-19, on a table: Patient.query.delete().
clear_data(table) == <<>>

\* migrate_data, migrate_data.py 22-89, on a table: the table it leaves and
\* the outcome it prints.
migrate_data(table) ==
    LET n == Len(csv.rows)
        rows == {csv.rows[i] : i \in 1..n}
        absent == IF n = 0 THEN {}
                  ELSE (DefaultedColumns \ csv.columns) \cup RowNone(csv.columns)
                         \cup (IF "bmi" \in csv.columns THEN {} ELSE {"bmi"})
        null == UNION {RowDefaulted(csv.columns, r) : r \in rows} \ absent
        report(error, scored, subst) ==
            Outcome("migrate_data", 0, error, "none", absent, null, scored, NoData,
                    subst, "none")
    IN
    IF Len(table) > MigrateThreshold THEN
        [table |-> table, outcome |-> Outcome("migrate_data", 0, "already_migrated",
                                               "none", {}, {}, FALSE, NoData, {}, "none")]
    ELSE IF ~csv.exists THEN
        [table |-> table, outcome |-> Outcome("migrate_data", 0, "file_not_found",
                                               "none", {}, {}, FALSE, NoData, {}, "none")]
    ELSE IF \E r \in rows : RowRaises(csv.columns, r) THEN
        \* ValueError in the loop: rollback, 'An error occurred: ...'
        [table |-> table, outcome |-> report("value_error", FALSE, {})]
    ELSE IF n > 0 /\ RowNone(csv.columns) # {} THEN
        \* IntegrityError at bulk_save_objects: rollback, 'An error occurred: ...'
        [table |-> table,
         outcome |-> report("integrity_error", TRUE, (absent \cup null) \cap ScoredFields)]
    ELSE
        [table |-> table \o [i \in 1..n |-> new_patient(csv.columns, csv.rows[i])],
         outcome |-> report("none", n > 0, (absent \cup null) \cap ScoredFields)]

\* python migrate_data.py (92-95): clear_data() then migrate_data().
MigrateScript ==
    /\ ops' = ops + 1
    /\ patients' = migrate_data(clear_data(patients)).table
    /\ lastOp' = migrate_data(clear_data(patients)).outcome

\* migrate_data() called on its own.
MigrateData ==
    /\ ops' = ops + 1
    /\ patients' = migrate_data(patients).table
    /\ lastOp' = migrate_data(patients).outcome

\* clear_data() called on its own.
ClearData ==
    /\ ops' = ops + 1
    /\ patients' = clear_data(patients)
    /\ lastOp' = Outcome("clear_data", 0, "none", "none", {}, {}, FALSE, NoData, {}, "none")

(***************************************************************************)
(* The inputs of the store: request bodies and files.                      *)
(***************************************************************************)
\* Two of the records of add_sample_patients.py (12-28 and 64-79), bmi and
\* glucose rounded up to whole numbers.
JohnSmith ==
    [name |-> "John Smith", age |-> 65, gender |-> "Male", hypertension |-> 1,
     heart_disease |-> 1, ever_married |-> "Yes", work_type |-> "Private",
     residence_type |-> "Urban", avg_glucose_level |-> 229, bmi |-> 29,
     smoking_status |-> "formerly smoked"]

EmilyDavis ==
    [name |-> "Emily Davis", age |-> 28, gender |-> "Female", hypertension |-> 0,
     heart_disease |-> 0, ever_married |-> "No", work_type |-> "Private",
     residence_type |-> "Urban", avg_glucose_level |-> 96, bmi |-> 22,
     smoking_status |-> "never smoked"]

SampleRecords == {JohnSmith, EmilyDavis}

\* Keys a body may lack or carry as null.
OmittableKeys == ScoredFields \cup {"name"}

\* Bodies of add_patient: a sample record, complete or with one key absent
\* or one key null.
AddRequests ==
    {[v |-> r, absent |-> {}, null |-> {}] : r \in SampleRecords}
    \cup {[v |-> r, absent |-> {k}, null |-> {}] : r \in SampleRecords, k \in OmittableKeys}
    \cup {[v |-> r, absent |-> {}, null |-> {k}] : r \in SampleRecords, k \in OmittableKeys}

\* stroke_prediction is <<>> when the body has no such key, else its value.
UpdateBody(has_id, id, supplied, v, null, invalid, stroke_prediction) ==
    [has_id |-> has_id, id |-> id, supplied |-> supplied, v |-> v, null |-> null,
     invalid |-> invalid, has_prediction |-> stroke_prediction # <<>>,
     stroke_prediction |-> stroke_prediction]

\* Bodies of update_patient.
UpdateRequests ==
    { UpdateBody(TRUE, <<1>>, {}, EmilyDavis, {}, {}, <<>>),
      UpdateBody(TRUE, <<1>>, {"age", "hypertension"}, JohnSmith, {}, {}, <<>>),
      UpdateBody(TRUE, <<1>>, {"age"}, JohnSmith, {"age"}, {}, <<>>),
      UpdateBody(TRUE, <<1>>, {"bmi"}, JohnSmith, {"bmi"}, {}, <<>>),
      UpdateBody(TRUE, <<1>>, {"smoking_status"}, JohnSmith, {"smoking_status"}, {}, <<>>),
      UpdateBody(TRUE, <<1>>, {"age", "bmi"}, JohnSmith, {}, {"bmi"}, <<>>),
      UpdateBody(TRUE, <<1>>, {"age", "hypertension", "heart_disease"}, JohnSmith, {}, {}, <<"Low Risk">>),
      UpdateBody(TRUE, <<2>>, {"age"}, EmilyDavis, {}, {}, <<>>),
      UpdateBody(TRUE, <<>>, {}, EmilyDavis, {}, {}, <<>>),
      UpdateBody(FALSE, <<>>, {"age"}, EmilyDavis, {}, {}, <<>>) }

\* Rows of the stroke data set: eight, with both outcomes.
GoodRows ==
    << Row(1, <<67>>, 0, 1, 229, <<37>>, "formerly smoked", "1"),
       Row(2, <<80>>, 0, 1, 106, <<33>>, "never smoked", "1"),
       Row(3, <<49>>, 0, 0, 172, <<35>>, "smokes", "0"),
       Row(4, <<31>>, 0, 0, 71, <<>>, "Unknown", "0"),
       Row(5, <<58>>, 1, 0, 88, <<24>>, "never smoked", "0"),
       Row(6, <<24>>, 0, 0, 97, <<22>>, "Unknown", "0"),
       Row(7, <<74>>, 1, 1, 70, <<28>>, "never smoked", "0"),
       Row(8, <<42>>, 0, 0, 84, <<27>>, "smokes", "0") >>

\* Eleven rows: more than the threshold of the "already migrated" guard.
ElevenRows ==
    GoodRows \o
    << Row(9, <<59>>, 0, 0, 76, <<>>, "Unknown", "1"),
       Row(10, <<78>>, 0, 0, 58, <<24>>, "Unknown", "1"),
       Row(11, <<81>>, 1, 0, 80, <<30>>, "never smoked", "0") >>

WithStroke(rows, labels) == [i \in 1..Len(labels) |-> [rows[i] EXCEPT !.stroke = labels[i]]]

WithAge(rows, ages) == [i \in 1..Len(ages) |-> [rows[i] EXCEPT !.age = ages[i]]]

CsvFiles ==
    { CsvFile(FALSE, {}, <<>>),
      CsvFile(TRUE, StandardColumns, <<>>),
      CsvFile(TRUE, StandardColumns, GoodRows),
      CsvFile(TRUE, StandardColumns, ElevenRows),
      CsvFile(TRUE, StandardColumns, WithStroke(GoodRows, <<"0", "0", "0">>)),
      CsvFile(TRUE, StandardColumns, WithStroke(GoodRows, <<"1", "", "maybe", "0">>)),
      CsvFile(TRUE, StandardColumns, WithStroke(GoodRows, <<"Yes", "no", "TRUE", "false">>)),
      CsvFile(TRUE, (StandardColumns \ {"stroke"}) \cup {"Stroke"}, SubSeq(GoodRows, 1, 3)),
      CsvFile(TRUE, StandardColumns \ {"stroke"}, SubSeq(GoodRows, 1, 2)),
      CsvFile(TRUE, StandardColumns \ {"age", "smoking_status"}, SubSeq(GoodRows, 1, 2)),
      CsvFile(TRUE, (StandardColumns \ {"Residence_type"}) \cup {"residence_type"},
              SubSeq(GoodRows, 1, 2)),
      CsvFile(TRUE, StandardColumns, WithAge(GoodRows, <<<<67>>, <<>>>>)) }

(***************************************************************************)
(* The training run, train_model.py 191-235.  A row of the DataFrame       *)
(* carries the position of the record it was read from (the patient id or  *)
(* the file row) and its stroke cell: the text of an integer on the        *)
(* database path, the text of the file's cell on the CSV path ('' is NaN). *)
(***************************************************************************)
StageOrder == <<"Build", "Preprocess", "Split", "Train", "Evaluate", "Report">>

NoFrame == [source |-> "none", rows |-> <<>>]
NoSplit == [train_idx |-> {}, test_idx |-> {}]
NoScaler == [fitted_on |-> {}, fits |-> 0]
NoFailure == [stage |-> "none", cause |-> "none"]

\* int(text) succeeds (for the texts a stroke_prediction or a cell holds here).
IsIntLiteral(text) == Strip(text) \in {"0", "1"}

IntOf(text) == IF Strip(text) = "1" THEN 1 ELSE 0

RECURSIVE SelectSeq2(_, _)
\* The rows for the patients whose stroke_prediction is not None, in order.
SelectSeq2(table, i) ==
    IF i > Len(table) THEN <<>>
    ELSE (IF table[i].stroke_prediction = NULL THEN <<>>
          ELSE <<[id |-> i, stroke |-> table[i].stroke_prediction]>>)
         \o SelectSeq2(table, i + 1)

\* Mutant of load_data_from_database: a stroke_prediction that is no integer
\* literal does not stop the load.
load_data_from_database_lenient(table) ==
    [raised |-> FALSE, cause |-> "none",
     frame |-> [source |-> "db", rows |-> SelectSeq2(table, 1)]]

\* load_data_from_database, 27-54: "raised" when int() of a non-null
\* stroke_prediction raises ValueError (lines 33, 34, 51), else the frame.
load_data_from_database(table) ==
    IF \E i \in 1..Len(table) :
           /\ table[i].stroke_prediction # NULL
           /\ ~IsIntLiteral(table[i].stroke_prediction)
    THEN [raised |-> TRUE, cause |-> "value_error", frame |-> NoFrame]
    ELSE [raised |-> FALSE, cause |-> "none",
          frame |-> [source |-> "db", rows |-> SelectSeq2(table, 1)]]

\* The header after df.rename(columns=rename_map), 66-70.
Renamed(columns) ==
    {IF c = "Residence_type" THEN "residence_type"
     ELSE IF c = "Avg_glucose_level" THEN "avg_glucose_level"
     ELSE c : c \in columns}

required ==
    {"age", "gender", "hypertension", "heart_disease", "ever_married", "work_type",
     "residence_type", "avg_glucose_level", "bmi", "smoking_status", "stroke"}

\* load_data_from_csv, 57-83.
load_data_from_csv(file) ==
    IF ~file.exists
    THEN [raised |-> TRUE, cause |-> "file_not_found", frame |-> NoFrame]
    ELSE IF required \ Renamed(file.columns) # {}
    THEN [raised |-> TRUE, cause |-> "missing_columns", frame |-> NoFrame]
    ELSE [raised |-> FALSE, cause |-> "none",
          frame |-> [source |-> "csv",
                     rows |-> [i \in 1..Len(file.rows) |->
                                  [id |-> i, stroke |-> file.rows[i].stroke]]]]

\* The texts read_csv turns into booleans when a whole column consists of them.
PandasBools == {"True", "TRUE", "true", "False", "FALSE", "false"}

BoolOf(text) == IF text \in {"True", "TRUE", "true"} THEN 1 ELSE 0

Labels(frame) == {frame.rows[i].stroke : i \in 1..Len(frame.rows)}

\* df['stroke'].astype(int), 109: a column of integers or of booleans
\* converts; NaN or any other text raises.
AsTypeIntRaises(frame) ==
    ~ \/ \A l \in Labels(frame) : IsIntLiteral(l) /\ Strip(l) = l
      \/ \A l \in Labels(frame) : l \in PandasBools

AsTypeInt(frame) ==
    [i \in 1..Len(frame.rows) |->
        IF frame.rows[i].stroke \in PandasBools THEN BoolOf(frame.rows[i].stroke)
        ELSE IntOf(frame.rows[i].stroke)]

\* Mutant of AfterBuild: the message of line 210 is printed and the run goes
\* on to Preprocess all the same.
AfterBuildAlways(frame) == "Preprocess"

\* 209-213: an empty frame ends the run with 'No data available to train
\* the model.'; any other frame is preprocessed.
AfterBuild(frame) == IF frame.rows = <<>> THEN "failed" ELSE "Preprocess"

\* Lines 192-211: the database, then the file when the database load raised
\* or returned an empty frame; an exception of the file load is printed and
\* leaves an empty frame.
Build ==
    /\ pc = "idle"
    /\ LET db == load_data_from_database(patients)
           use_db == ~db.raised /\ db.frame.rows # <<>>
           file == load_data_from_csv(csv)
           frame == IF use_db THEN db.frame ELSE file.frame
       IN /\ stages' = Append(stages, "Build")
          /\ df' = frame
          /\ pc' = AfterBuild(frame)
          /\ failure' = IF frame.rows = <<>>
                        THEN [stage |-> "Build",
                              cause |-> IF file.raised THEN file.cause ELSE "no_data"]
                        ELSE NoFailure
    /\ UNCHANGED <<y, split, scaler>>
    /\ UNCHANGED TrainIdle

\* The medians (94-97), the LabelEncoder (100-105) and the StandardScaler
\* (112-113) are each fitted on the frame they are handed, all of its rows.
fit_transform(state, frame) ==
    [fitted_on |-> 1..Len(frame.rows), fits |-> state.fits + 1]

\* preprocess_data, 86-115, called at 213 on the whole frame, before the
\* split of 216.
Preprocess ==
    /\ pc = "Preprocess"
    /\ stages' = Append(stages, "Preprocess")
    /\ IF df.rows = <<>> \/ AsTypeIntRaises(df)
       THEN /\ pc' = "failed"
            /\ failure' = [stage |-> "Preprocess", cause |-> "value_error"]
            /\ UNCHANGED <<y, scaler>>
       ELSE /\ pc' = "Split"
            /\ y' = AsTypeInt(df)
            /\ scaler' = fit_transform(scaler, df)
            /\ UNCHANGED failure
    /\ UNCHANGED <<df, split>>
    /\ UNCHANGED TrainIdle

\* test_size of StratifiedShuffleSplit (216) is 0.2: n_test = ceil(n / 5),
\* n_train = floor(4 n / 5).
TestFraction == 5

n_test(n) == (n + TestFraction - 1) \div TestFraction

n_train(n) == ((TestFraction - 1) * n) \div TestFraction

Classes(labels, idx) == {labels[i] : i \in idx}

ClassCount(labels, c) == Cardinality({i \in 1..Len(labels) : labels[i] = c})

\* sss.split(X, y) raises ValueError: an empty train set, a class with one
\* member, or fewer train or test rows than classes.
SplitRaises(labels) ==
    LET n == Len(labels)
        classes == Classes(labels, 1..n)
    IN \/ n_train(n) = 0
       \/ \E c \in classes : ClassCount(labels, c) < 2
       \/ n_train(n) < Cardinality(classes)
       \/ n_test(n) < Cardinality(classes)

\* Mutant of BothClasses: only the training partition is looked at.
BothClassesTrainOnly(labels, train_idx, test_idx) ==
    Cardinality(Classes(labels, train_idx)) > 1

\* y_train.nunique() > 1 and y_test.nunique() > 1, line 222.
BothClasses(labels, train_idx, test_idx) ==
    /\ Cardinality(Classes(labels, train_idx)) > 1
    /\ Cardinality(Classes(labels, test_idx)) > 1

\* Lines 216-222: the shuffle split and the assertion.  The permutation is
\* the library's: test_idx is any n_test(n) of the n rows and train_idx the
\* other n_train(n) = n - n_test(n).
Split ==
    /\ pc = "Split"
    /\ stages' = Append(stages, "Split")
    /\ IF SplitRaises(y)
       THEN /\ pc' = "failed"
            /\ failure' = [stage |-> "Split", cause |-> "value_error"]
            /\ UNCHANGED split
       ELSE \E test_idx \in SUBSET (1..Len(y)) :
              LET train_idx == (1..Len(y)) \ test_idx
              IN /\ Cardinality(test_idx) = n_test(Len(y))
                 /\ Cardinality(train_idx) = n_train(Len(y))
                 /\ split' = [train_idx |-> train_idx, test_idx |-> test_idx]
                 /\ IF BothClasses(y, train_idx, test_idx)
                    THEN pc' = "Train" /\ UNCHANGED failure
                    ELSE /\ pc' = "failed"
                         /\ failure' = [stage |-> "Split", cause |-> "assertion_error"]
    /\ UNCHANGED <<df, y, scaler>>
    /\ UNCHANGED TrainIdle

\* train_random_forest, 118-128, called at 229: model.fit returns or raises.
Train ==
    /\ pc = "Train"
    /\ stages' = Append(stages, "Train")
    /\ \E raised \in BOOLEAN :
         IF raised
         THEN pc' = "failed" /\ failure' = [stage |-> "Train", cause |-> "fit_error"]
         ELSE pc' = "Evaluate" /\ UNCHANGED failure
    /\ UNCHANGED <<df, y, split, scaler>>
    /\ UNCHANGED TrainIdle

\* evaluate_model, 131-159, called at 232.
Evaluate ==
    /\ pc = "Evaluate"
    /\ stages' = Append(stages, "Evaluate")
    /\ \E raised \in BOOLEAN :
         IF raised
         THEN pc' = "failed" /\ failure' = [stage |-> "Evaluate", cause |-> "predict_error"]
         ELSE pc' = "Report" /\ UNCHANGED failure
    /\ UNCHANGED <<df, y, split, scaler>>
    /\ UNCHANGED TrainIdle

\* cv of cross_val_score, line 179.
CvFolds == 5

\* print_results, 162-188, called at 235: cross_val_score (stratified folds)
\* raises ValueError when no class of the training partition has as many
\* rows as there are folds.
Report ==
    /\ pc = "Report"
    /\ stages' = Append(stages, "Report")
    /\ IF \A c \in Classes(y, split.train_idx) :
             Cardinality({i \in split.train_idx : y[i] = c}) < CvFolds
       THEN pc' = "failed" /\ failure' = [stage |-> "Report", cause |-> "value_error"]
       ELSE pc' = "done" /\ UNCHANGED failure
    /\ UNCHANGED <<df, y, split, scaler>>
    /\ UNCHANGED TrainIdle

(***************************************************************************)
(* One invocation of the scorer on an arbitrary complete record.           *)
(***************************************************************************)
Ages == {0, 45, 46, 60, 61, 120}
Flags == {0, 1, 2}
Glucoses == {50, 100, 101, 125, 126, 300}
Bmis == {10, 25, 26, 30, 31, 60}
SmokingStatuses == {"smokes", "formerly smoked", "never smoked", "Unknown"}

PatientData ==
    [age : Ages, hypertension : Flags, heart_disease : Flags,
     avg_glucose_level : Glucoses, bmi : Bmis, smoking_status : SmokingStatuses]

NoCalls == <<>>
NoCells == <<>>

ScorerInit ==
    /\ sc \in [pc : {"call"}, patient_data : PatientData, risk_score : {0},
               probability : {0}, label : {"none"}]
    /\ calls = NoCalls
    /\ cells = NoCells
    /\ patients = <<>> /\ lastOp = NoOutcome /\ ops = 0
    /\ csv = CsvFile(FALSE, {}, <<>>)
    /\ pc = "idle" /\ stages = <<>> /\ df = NoFrame /\ y = <<>>
    /\ split = NoSplit /\ scaler = NoScaler /\ failure = NoFailure

\* The body of predict_stroke, run to its return statement.
ScorerRun ==
    /\ sc.pc = "call"
    /\ sc' = [sc EXCEPT !.pc = "done",
                        !.risk_score = risk_score(sc.patient_data),
                        !.probability = probability(risk_score(sc.patient_data)),
                        !.label = predict_stroke(sc.patient_data)]
    /\ UNCHANGED <<calls, cells, patients, lastOp, ops, csv, pc, stages, df, y, split, scaler, failure>>

ScorerNext == ScorerRun

SpecScorer == ScorerInit /\ [][ScorerNext]_vars

(***************************************************************************)
(* The store and the training run.  The run reads the table once, in       *)
(* Build, so the handlers and scripts are interleaved before it only.      *)
(***************************************************************************)
MaxOps == 3

Init ==
    /\ sc = [pc |-> "idle", patient_data |-> NoData, risk_score |-> 0,
             probability |-> 0, label |-> "none"]
    /\ calls = NoCalls
    /\ cells = NoCells
    /\ patients = <<>>
    /\ lastOp = NoOutcome
    /\ ops = 0
    /\ csv \in CsvFiles
    /\ pc = "idle"
    /\ stages = <<>>
    /\ df = NoFrame
    /\ y = <<>>
    /\ split = NoSplit /\ scaler = NoScaler
    /\ failure = NoFailure

StoreIdle == <<sc, calls, cells, csv, pc, stages, df, y, split, scaler, failure>>

AddPatient(requests) ==
    /\ ops < MaxOps /\ pc = "idle"
    /\ \E req \in requests, authorised \in BOOLEAN : add_patient(req, authorised)
    /\ UNCHANGED StoreIdle

UpdatePatient(requests) ==
    /\ ops < MaxOps /\ pc = "idle"
    /\ \E req \in requests, authorised \in BOOLEAN : update_patient(req, authorised)
    /\ UNCHANGED StoreIdle

RunMigrateScript == ops < MaxOps /\ pc = "idle" /\ MigrateScript /\ UNCHANGED StoreIdle

CallMigrateData == ops < MaxOps /\ pc = "idle" /\ MigrateData /\ UNCHANGED StoreIdle

CallClearData == ops < MaxOps /\ pc = "idle" /\ ClearData /\ UNCHANGED StoreIdle

\* The handlers and scripts on the store, with every request body.
Next ==
    \/ AddPatient(AddRequests)
    \/ UpdatePatient(UpdateRequests)
    \/ RunMigrateScript
    \/ CallMigrateData
    \/ CallClearData

Spec == Init /\ [][Next]_vars

\* python train_model.py, after the store was filled by the scripts and by
\* handlers answering complete bodies.
TrainModel ==
    \/ Build
    \/ Preprocess
    \/ Split
    \/ Train
    \/ Evaluate
    \/ Report

TrainAddRequests == {req \in AddRequests : req.absent = {} /\ req.null = {}}

TrainUpdateRequests == {req \in UpdateRequests : req.has_id /\ req.id = <<1>> /\ req.null = {} /\ req.invalid = {}}

TrainNext ==
    \/ AddPatient(TrainAddRequests)
    \/ UpdatePatient(TrainUpdateRequests)
    \/ RunMigrateScript
    \/ CallMigrateData
    \/ CallClearData
    \/ TrainModel

SpecTrain == Init /\ [][TrainNext]_vars

(***************************************************************************)
(* Concurrent invocations of predict_stroke (one per request thread), each *)
(* running the rule blocks of 361-399 one at a time on its own frame,      *)
(* interleaved with each other and with handlers that write the store.     *)
(***************************************************************************)
NumCalls == 2

CallIds == 1..NumCalls

ConcurrentInputs == {ScorerInput(JohnSmith), ScorerInput(EmilyDavis)}

\* Mutant of ScoreCell: risk_score kept in one module-level variable.
ScoreCellGlobal(c) == 1

\* risk_score is a local of predict_stroke (361): each invocation has its own.
ScoreCell(c) == c

ConcInit ==
    /\ sc = [pc |-> "idle", patient_data |-> NoData, risk_score |-> 0,
             probability |-> 0, label |-> "none"]
    /\ calls = [c \in CallIds |-> [pc |-> "idle", patient_data |-> NoData, label |-> "none"]]
    /\ cells = [c \in CallIds |-> 0]
    /\ patients = <<>> /\ lastOp = NoOutcome /\ ops = 0
    /\ csv = CsvFile(FALSE, {}, <<>>)
    /\ pc = "idle" /\ stages = <<>> /\ df = NoFrame /\ y = <<>>
    /\ split = NoSplit /\ scaler = NoScaler /\ failure = NoFailure

ConcIdle == <<sc, patients, lastOp, ops, csv, pc, stages, df, y, split, scaler, failure>>

\* The call and line 361: risk_score = 0.
Invoke(c) ==
    /\ calls[c].pc = "idle"
    /\ \E d \in ConcurrentInputs :
         calls' = [calls EXCEPT ![c] = [pc |-> "age", patient_data |-> d, label |-> "none"]]
    /\ cells' = [cells EXCEPT ![ScoreCell(c)] = 0]
    /\ UNCHANGED ConcIdle

\* One rule block: risk_score += points.
RuleBlock(c, at, points, then) ==
    /\ calls[c].pc = at
    /\ cells' = [cells EXCEPT ![ScoreCell(c)] = @ + points]
    /\ calls' = [calls EXCEPT ![c].pc = then]
    /\ UNCHANGED ConcIdle

AgeRule(c) == RuleBlock(c, "age", AgePoints(calls[c].patient_data.age), "hypertension")

HypertensionRule(c) ==
    RuleBlock(c, "hypertension", HypertensionPoints(calls[c].patient_data.hypertension),
              "heart_disease")

HeartDiseaseRule(c) ==
    RuleBlock(c, "heart_disease", HeartDiseasePoints(calls[c].patient_data.heart_disease),
              "avg_glucose_level")

GlucoseRule(c) ==
    RuleBlock(c, "avg_glucose_level", GlucosePoints(calls[c].patient_data.avg_glucose_level),
              "bmi")

BmiRule(c) == RuleBlock(c, "bmi", BmiPoints(calls[c].patient_data.bmi), "smoking_status")

SmokingRule(c) ==
    RuleBlock(c, "smoking_status", SmokingPoints(calls[c].patient_data.smoking_status),
              "return")

\* Lines 396-399.
Return(c) ==
    /\ calls[c].pc = "return"
    /\ calls' = [calls EXCEPT ![c].pc = "done",
                              ![c].label = RiskLevel(probability(cells[ScoreCell(c)]))]
    /\ UNCHANGED cells
    /\ UNCHANGED ConcIdle

ConcAddPatient ==
    /\ ops < MaxOps
    /\ \E req \in TrainAddRequests : add_patient(req, TRUE)
    /\ UNCHANGED <<sc, calls, cells, csv, pc, stages, df, y, split, scaler, failure>>

ConcClearData ==
    /\ ops < MaxOps
    /\ ClearData
    /\ UNCHANGED <<sc, calls, cells, csv, pc, stages, df, y, split, scaler, failure>>

ConcNext ==
    \/ \E c \in CallIds : Invoke(c)
    \/ \E c \in CallIds : AgeRule(c)
    \/ \E c \in CallIds : HypertensionRule(c)
    \/ \E c \in CallIds : HeartDiseaseRule(c)
    \/ \E c \in CallIds : GlucoseRule(c)
    \/ \E c \in CallIds : BmiRule(c)
    \/ \E c \in CallIds : SmokingRule(c)
    \/ \E c \in CallIds : Return(c)
    \/ ConcAddPatient
    \/ ConcClearData

SpecConc == ConcInit /\ [][ConcNext]_vars

(***************************************************************************)
(* Claims about the scorer, checked under SpecScorer.                      *)
(***************************************************************************)

\* C1 (as stated): for every complete input the risk score lies in [0,100]
\* and the probability in [0,0.95].
C1_ScoreWithin100 ==
    sc.pc = "done" =>
        /\ sc.risk_score \in 0..100
        /\ sc.probability \in 0..95

\* C1 (amended): for every complete input the risk score lies in [0,120]
\* (the six largest rule points add up to 120) and the probability in [0,0.95].
C1_ScoreWithin120 ==
    sc.pc = "done" =>
        /\ sc.risk_score \in 0..120
        /\ sc.probability \in 0..95

\* A scored record whose score exceeds 100 and whose probability is clipped.
C1_Witness ==
    /\ sc.pc = "done"
    /\ sc.risk_score = 120
    /\ sc.probability = 95

\* The rule table of the specification: a row applies when the value of its
\* factor is > lo (kind "gt"), in (lo, hi] (kind "range"), = lo (kind "eq")
\* or the text (kind "is"); rows apply independently of each other.
RuleTable ==
    { [factor |-> "age", kind |-> "gt", lo |-> 60, hi |-> 60, text |-> "", points |-> 30],
      [factor |-> "age", kind |-> "range", lo |-> 45, hi |-> 60, text |-> "", points |-> 15],
      [factor |-> "hypertension", kind |-> "eq", lo |-> 1, hi |-> 1, text |-> "", points |-> 25],
      [factor |-> "heart_disease", kind |-> "eq", lo |-> 1, hi |-> 1, text |-> "", points |-> 25],
      [factor |-> "avg_glucose_level", kind |-> "gt", lo |-> 125, hi |-> 125, text |-> "", points |-> 15],
      [factor |-> "avg_glucose_level", kind |-> "range", lo |-> 100, hi |-> 125, text |-> "", points |-> 10],
      [factor |-> "bmi", kind |-> "gt", lo |-> 30, hi |-> 30, text |-> "", points |-> 10],
      [factor |-> "bmi", kind |-> "range", lo |-> 25, hi |-> 30, text |-> "", points |-> 5],
      [factor |-> "smoking_status", kind |-> "is", lo |-> 0, hi |-> 0, text |-> "smokes", points |-> 15],
      [factor |-> "smoking_status", kind |-> "is", lo |-> 0, hi |-> 0, text |-> "formerly smoked", points |-> 8] }

RowApplies(row, d) ==
    CASE row.kind = "gt" -> d[row.factor] > row.lo
      [] row.kind = "range" -> d[row.factor] > row.lo /\ d[row.factor] <= row.hi
      [] row.kind = "eq" -> d[row.factor] = row.lo
      [] row.kind = "is" -> d[row.factor] = row.text

RECURSIVE TablePoints(_, _)
TablePoints(rows, d) ==
    IF rows = {} THEN 0
    ELSE LET row == CHOOSE r \in rows : TRUE
         IN (IF RowApplies(row, d) THEN row.points ELSE 0)
            + TablePoints(rows \ {row}, d)

\* C2: the risk score is the sum of the points of the rule-table rows that
\* apply, every other value contributing 0, and the probability is
\* min(score/100, 0.95).
C2_ScoreIsRuleTableSum ==
    sc.pc = "done" =>
        /\ sc.risk_score = TablePoints(RuleTable, sc.patient_data)
        /\ sc.probability = Min(TablePoints(RuleTable, sc.patient_data), 95)

\* A scored record in the middle bucket of every banded factor, with a flag
\* value other than 0 or 1.
C2_Witness ==
    /\ sc.pc = "done"
    /\ sc.patient_data.age = 60
    /\ sc.patient_data.hypertension = 2
    /\ sc.patient_data.heart_disease = 1
    /\ sc.patient_data.avg_glucose_level = 125
    /\ sc.patient_data.bmi = 30
    /\ sc.patient_data.smoking_status = "formerly smoked"
    /\ sc.risk_score = 15 + 25 + 10 + 5 + 8

\* C3: the returned label is 'High Risk' exactly when the probability is
\* strictly greater than 0.5 (a score of 51 or more) and 'Low Risk'
\* otherwise; a score of exactly 50 is 'Low Risk'.
C3_TwoTierLabel ==
    sc.pc = "done" =>
        /\ sc.label \in {"High Risk", "Low Risk"}
        /\ (sc.label = "High Risk") <=> (sc.probability > 50)
        /\ (sc.label = "High Risk") <=> (sc.risk_score >= 51)
        /\ (sc.risk_score = 50 => sc.label = "Low Risk")

\* A record scoring exactly 50 (hypertension and heart disease only).
C3_Witness ==
    /\ sc.pc = "done"
    /\ sc.risk_score = 50
    /\ sc.label = "Low Risk"

\* The 3-tier policy of the specification.
ThreeTierLabel(prob) ==
    IF prob > 50 THEN "High Risk"
    ELSE IF prob > 30 THEN "Medium Risk"
    ELSE "Low Risk"

\* C4: the scorer can be run under the 3-tier policy: a record whose
\* probability is in (0.3, 0.5] is labelled 'Medium Risk', one above 0.5
\* 'High Risk', one at or below 0.3 'Low Risk'.
C4_ThreeTierAvailable ==
    sc.pc = "done" => sc.label = ThreeTierLabel(sc.probability)

(***************************************************************************)
(* Claims about the handlers and the migration, checked under Spec.        *)
(***************************************************************************)
ScoringOps == {"add_patient", "update_patient", "migrate_data"}

Lacking(outcome) == outcome.absent \cup outcome.null

\* The fields the specification requires for scoring, bmi apart.
RequiredForScoring == ScoredFields \ {"bmi"}

\* C5: whenever a record is scored (add_patient, the re-scoring of
\* update_patient, migrate_data) and a required field other than bmi is
\* missing or null, the operation fails with a validation error naming that
\* field, and the scorer is not run with a default in its place.
C5_MissingFieldIsValidationError ==
    (/\ lastOp.op \in ScoringOps
     /\ Lacking(lastOp) \cap RequiredForScoring # {})
    => /\ lastOp.error = "missing_field"
       /\ lastOp.field \in Lacking(lastOp) \cap RequiredForScoring
       /\ lastOp.substituted = {}
       /\ ~lastOp.scored

\* C6: a record submitted with bmi absent (and nothing else missing) is
\* scored without error, with a BMI contribution of exactly 0 points.
C6_AbsentBmiScoresZeroPoints ==
    (/\ lastOp.op \in ScoringOps
     /\ lastOp.absent = {"bmi"}
     /\ lastOp.null = {})
    => /\ lastOp.error = "none"
       /\ lastOp.scored
       /\ lastOp.op # "migrate_data" =>
              lastOp.prediction
                  = RiskLevel(probability(risk_score([lastOp.data EXCEPT !.bmi = 0])))

(***************************************************************************)
(* Claims about concurrent scoring, checked under SpecConc.                *)
(***************************************************************************)

\* C7: under any interleaving of scoring calls with each other and with
\* store operations, the label a call returns is the label of its own input
\* record, and two calls with equal inputs return equal labels.
C7_LabelDependsOnlyOnInput ==
    /\ \A c \in CallIds :
           calls[c].pc = "done" => calls[c].label = predict_stroke(calls[c].patient_data)
    /\ \A c1, c2 \in CallIds :
           (/\ calls[c1].pc = "done" /\ calls[c2].pc = "done"
            /\ calls[c1].patient_data = calls[c2].patient_data)
           => calls[c1].label = calls[c2].label

\* A call has returned 'High Risk' while another call, on a different
\* record, is in the middle of its rule blocks and the store has been written.
C7_Witness ==
    \E c1, c2 \in CallIds :
        /\ calls[c1].pc = "done" /\ calls[c1].label = "High Risk"
        /\ calls[c2].pc = "avg_glucose_level"
        /\ calls[c2].patient_data # calls[c1].patient_data
        /\ patients # <<>>

(***************************************************************************)
(* Claims about the training run, checked under SpecTrain.                 *)
(***************************************************************************)
IsPrefix(s, t) == Len(s) <= Len(t) /\ \A i \in 1..Len(s) : s[i] = t[i]

\* C8: the stages of a run occur in the order Build, Preprocess, Split,
\* Train, Evaluate, Report, each at most once; when a stage fails no later
\* stage runs and none is retried, and the failure names the failing stage
\* and its cause.
C8_StagesInOrderAndFailureNamed ==
    /\ IsPrefix(stages, StageOrder)
    /\ (pc = "failed") <=> (failure # NoFailure)
    /\ pc = "failed" =>
           /\ stages # <<>>
           /\ failure.stage = stages[Len(stages)]
           /\ failure.cause # "none"
    /\ pc = "done" => stages = StageOrder
    /\ pc \in {StageOrder[i] : i \in 1..Len(StageOrder)} =>
           stages \o <<pc>> = SubSeq(StageOrder, 1, Len(stages) + 1)

\* A run that failed in Train, after Build, Preprocess and Split.
C8_Witness ==
    /\ pc = "failed"
    /\ failure.stage = "Train"
    /\ stages = <<"Build", "Preprocess", "Split", "Train">>

\* The outcome texts the specification asks the builder to recognise.
RecognisedLabel(raw) ==
    /\ raw # <<>>
    /\ Lower(Strip(raw[1])) \in {"0", "1", "yes", "no", "true", "false"}

NormalisedLabel(raw) == IF Lower(Strip(raw[1])) \in {"1", "yes", "true"} THEN 1 ELSE 0

\* The outcome classes among the usable (recognisably labelled) rows of a frame.
UsableClasses(frame) ==
    {NormalisedLabel(<<frame.rows[i].stroke>>) :
        i \in {j \in 1..Len(frame.rows) : RecognisedLabel(<<frame.rows[j].stroke>>)}}

\* C9: when no source yields a usable labelled record, or the usable records
\* hold a single outcome class, the run fails at Build with a
\* data-unavailable error and no later stage runs on that Dataset.
C9_DegenerateDatasetFailsAtBuild ==
    (/\ stages # <<>>
     /\ Cardinality(UsableClasses(df)) < 2)
    => /\ pc = "failed"
       /\ failure.stage = "Build"
       /\ stages = <<"Build">>

\* The outcome cell of the source row a row of the frame was read from: the
\* file's row on the CSV path; on the database path the file row whose id
\* the migrated patient's name carries.
SourceLabel(row) ==
    IF df.source = "csv" THEN raw_stroke(csv.columns, csv.rows[row.id])
    ELSE LET from == {j \in 1..Len(csv.rows) :
                         patients[row.id].name = "Patient " \o ToString(csv.rows[j].id)}
         IN IF patients[row.id].created_by # "migration_script" \/ from = {}
            THEN <<patients[row.id].stroke_prediction>>
            ELSE raw_stroke(csv.columns, csv.rows[CHOOSE j \in from : TRUE])

\* C10: a source row whose outcome label is absent or not a recognised
\* boolean form never becomes a labelled record of the training Dataset (a
\* row of the frame with an entry in the target column y).
C10_UnlabelledRowsExcluded ==
    \A i \in 1..Len(y) : RecognisedLabel(SourceLabel(df.rows[i]))

\* A column header with its letters in lower case (for the headers met here).
FoldCase(c) ==
    CASE c = "Stroke" -> "stroke"
      [] c = "Residence_type" -> "residence_type"
      [] c = "Avg_glucose_level" -> "avg_glucose_level"
      [] OTHER -> c

\* A file that has every column when case is ignored, a readable age in
\* every row and a recognised outcome text in every row.
WellLabelledFile ==
    /\ csv.exists
    /\ csv.rows # <<>>
    /\ required \subseteq {FoldCase(c) : c \in csv.columns}
    /\ \A i \in 1..Len(csv.rows) :
           /\ csv.rows[i].age # <<>>
           /\ RecognisedLabel(<<csv.rows[i].stroke>>)

\* C11: wherever the outcome column of the file is read (migrate_data, and
\* load_data_from_csv with preprocess_data), each of "0", "1", "yes", "no",
\* "true", "false" becomes the integer 1 for "1"/"yes"/"true" and 0 for
\* "0"/"no"/"false", and a header that differs only in letter case
\* (stroke/Stroke, residence_type/Residence_type) is read as the same column.
C11_LabelsAndHeadersNormalised ==
    LET n == Len(csv.rows)
        label(i) == NormalisedLabel(<<csv.rows[i].stroke>>)
    IN /\ (/\ WellLabelledFile
           /\ lastOp.op = "migrate_data"
           /\ lastOp.error # "already_migrated")
          => /\ Len(patients) >= n
             /\ \A i \in 1..n :
                    patients[Len(patients) - n + i].stroke_prediction = IntText(label(i))
       /\ (/\ WellLabelledFile
           /\ stages # <<>>
           /\ df.source # "db")
          => /\ df.source = "csv"
             /\ Len(stages) >= 2 =>
                    /\ failure.stage # "Preprocess"
                    /\ y = [i \in 1..n |-> label(i)]

\* The stages Train and after it.
FromTrain == {"Train", "Evaluate", "Report"}

\* C12: Train and Evaluate never run on a degenerate split.  Once the run
\* has passed Split, the partitions are disjoint, cover the Dataset and each
\* holds every outcome class of it; a single-class Dataset, or a split with
\* a partition that lacks a class, ends the run at Split with a failure.
C12_NoDegenerateSplit ==
    LET all == 1..Len(y)
        passed == pc \in FromTrain \/ pc = "done" \/ \E i \in 1..Len(stages) : stages[i] = "Train"
        split_ran == \E i \in 1..Len(stages) : stages[i] = "Split"
    IN /\ passed =>
              /\ split.train_idx \cap split.test_idx = {}
              /\ split.train_idx \cup split.test_idx = all
              /\ split.train_idx # {} /\ split.test_idx # {}
              /\ Classes(y, split.train_idx) = Classes(y, all)
              /\ Classes(y, split.test_idx) = Classes(y, all)
              /\ Cardinality(Classes(y, all)) >= 2
       /\ (split_ran /\ Cardinality(Classes(y, all)) < 2) =>
              /\ pc = "failed"
              /\ failure.stage = "Split"
              /\ failure.cause \in {"assertion_error", "value_error"}
       /\ (/\ split_ran /\ split # NoSplit
           /\ \/ Classes(y, split.train_idx) # Classes(y, all)
              \/ Classes(y, split.test_idx) # Classes(y, all)) =>
              /\ pc = "failed"
              /\ failure = [stage |-> "Split", cause |-> "assertion_error"]

\* Train is about to start on a split whose test partition holds one record
\* of each class.
C12_Witness ==
    /\ pc = "Train"
    /\ Cardinality(split.test_idx) = 2
    /\ Classes(y, split.test_idx) = {0, 1}

\* A split was drawn whose test partition lacks a class, and the run ended.
C12_WitnessRejected ==
    /\ pc = "failed"
    /\ failure = [stage |-> "Split", cause |-> "assertion_error"]
    /\ Classes(y, 1..Len(y)) = {0, 1}
    /\ Classes(y, split.test_idx) = {0}

\* C13: a candidate's fit failure during Train does not abort the run: the
\* failure is kept as that candidate's record and the run goes on to
\* Evaluate and Report for the candidates that were fitted, so a run that
\* has entered Train is never ended by it.
C13_FitFailureDoesNotAbort ==
    (stages # <<>> /\ stages[Len(stages)] = "Train") =>
        /\ pc = "Evaluate"
        /\ failure.stage # "Train"

\* C14: the fitted preprocessing state (medians, category codes, scaling
\* statistics) is computed once per run, from rows of the training partition
\* only: once the partitions exist, no row of the test partition is among
\* the rows the state was fitted on, and no later step fits it again.
C14_FittedOnTrainingPartitionOnly ==
    /\ scaler.fits <= 1
    /\ split # NoSplit =>
           /\ scaler.fits = 1
           /\ scaler.fitted_on \subseteq split.train_idx
           /\ scaler.fitted_on \cap split.test_idx = {}

\* C15: when the store holds more than 10 records, a run of the migration
\* script (python migrate_data.py) deletes no record and inserts none: the
\* store is the same after the run as before it.
C15_ScriptLeavesPopulatedStoreAlone ==
    [][(RunMigrateScript /\ Len(patients) > MigrateThreshold) => patients' = patients]_vars

\* C16: in every state of the store each record's stroke_prediction is
\* null, 'High Risk' or 'Low Risk': the binary stroke outcome used as the
\* training target is never stored in the field of the scorer's label.
C16_PredictionIsRiskLabelOrNull ==
    \A i \in 1..Len(patients) :
        patients[i].stroke_prediction \in {NULL, "High Risk", "Low Risk"}

\* C17: after an update_patient request that answers success and did not
\* supply stroke_prediction, the stored record's stroke_prediction is
\* predict_stroke of the record's values after the update and the response
\* carries that label; a request that fails (missing id, unknown patient,
\* invalid numeric value, exception) leaves the stored records unchanged.
C17_UpdateRescoresOrLeavesUnchanged ==
    [][(lastOp'.op = "update_patient" /\ ops' = ops + 1) =>
          IF lastOp'.status = 200
          THEN /\ Len(patients') = Len(patients)
               /\ \E id \in 1..Len(patients) :
                      /\ \A j \in 1..Len(patients) : j # id => patients'[j] = patients[j]
                      /\ patients'[id].stroke_prediction
                             = predict_stroke(ScorerInput(patients'[id]))
                      /\ lastOp'.prediction = patients'[id].stroke_prediction
          ELSE patients' = patients]_vars

\* C18: an authorised update_patient request for an existing patient that
\* supplies stroke_prediction (and valid values) succeeds, the supplied
\* value is stored as the record's stroke_prediction instead of a
\* recalculated one, and the other supplied fields are updated.
C18_SuppliedPredictionIsStored ==
    [][\A req \in UpdateRequests :
          (/\ req.has_prediction
           /\ req.has_id /\ req.id # <<>> /\ req.id[1] \in 1..Len(patients)
           /\ FirstInvalid(req) = "none" /\ req.null = {}
           /\ update_patient(req, TRUE))
          => /\ lastOp'.status = 200
             /\ patients'[req.id[1]].stroke_prediction = req.stroke_prediction[1]
             /\ \A k \in req.supplied : patients'[req.id[1]][k] = req.v[k]]_vars

\* The stored records that carry an outcome, and those among them whose
\* outcome is not the text of an integer.
Labelled == {i \in 1..Len(patients) : patients[i].stroke_prediction # NULL}

NotInteger == {i \in Labelled : patients[i].stroke_prediction \notin {"0", "1"}}

\* C19: the Dataset of a run comes from exactly one source, whole: every
\* database row with a non-null outcome when the database load returns a
\* non-empty frame, and otherwise the rows of the file; a stored record whose
\* non-null stroke_prediction is no integer literal (a 'High Risk' or
\* 'Low Risk' label) makes the database load raise, so that no database row
\* is used and the run falls back to the file.
C19_DatasetFromOneSource ==
    stages # <<>> =>
        IF Labelled # {} /\ NotInteger = {}
        THEN /\ df.source = "db"
             /\ Len(df.rows) = Cardinality(Labelled)
             /\ \A k \in 1..Len(df.rows) :
                    /\ df.rows[k].id \in Labelled
                    /\ df.rows[k].stroke = patients[df.rows[k].id].stroke_prediction
                    /\ \A l \in 1..Len(df.rows) : k < l => df.rows[k].id < df.rows[l].id
        ELSE /\ df.source # "db"
             /\ IF csv.exists /\ required \subseteq Renamed(csv.columns)
                THEN /\ df.source = "csv"
                     /\ Len(df.rows) = Len(csv.rows)
                     /\ \A k \in 1..Len(df.rows) :
                            df.rows[k] = [id |-> k, stroke |-> csv.rows[k].stroke]
                ELSE /\ df = NoFrame
                     /\ pc = "failed" /\ failure.stage = "Build"

\* The store holds migrated records with an integer outcome and a record
\* that add_patient labelled, and the run took its Dataset from the file.
C19_Witness ==
    /\ stages # <<>>
    /\ NotInteger # {}
    /\ Labelled \ NotInteger # {}
    /\ df.source = "csv"
    /\ df.rows # <<>>

====
